---- MODULE Spec2Model ----
(***************************************************************************)
(* Article-to-insurer matching and deduplication pipeline of BrasilIntel.  *)
(*                                                                         *)
(*   app/services/insurer_matcher.py  InsurerMatcher                       *)
(*   app/services/ai_matcher.py       AIInsurerMatcher                     *)
(*   app/schemas/matching.py          MatchResult                          *)
(*   app/services/deduplicator.py     ArticleDeduplicator, _UnionFind      *)
(*                                                                         *)
(* A Python str is a sequence of characters; a character is a one-token    *)
(* TLA+ string.  The accented letter U+00E9 is the token "e_acute", its    *)
(* capital U+00C9 is "E_acute" and the combining acute accent U+0301 is    *)
(* "ACUTE".  Python's None is the value None below.  Confidences are in    *)
(* hundredths (95 is 0.95).                                                *)
(***************************************************************************)
EXTENDS Integers, Sequences, FiniteSets, TLC

VARIABLES
    article,      \* the article dict handed to the matchers
    insurers,     \* the roster: list of Insurer rows
    mpc,          \* InsurerMatcher: "ready" before match_article, "done" after
    matched_ids,  \* InsurerMatcher: matched_ids of _deterministic_match
    result,       \* InsurerMatcher: the MatchResult of match_article
    client,       \* AIInsurerMatcher.client: TRUE when configured, FALSE for None
    aipc,         \* ai_match: "idle", "body", "backoff", "returned", "raised"
    attempt,      \* tenacity: number of the running attempt of ai_match
    outcomes,     \* outcome of each completion request of the call, in order
    sleeps,       \* backoff waits (seconds) tenacity slept during the call
    context,      \* ids of sorted_insurers of the last attempt (context sent)
    parsed,       \* parsed_result.insurer_ids of the last successful request
    parsed_confidence, \* parsed_result.confidence of the last successful request
    recordCalls,  \* success flag of each _record_event invocation of the call
    events,       \* api_events rows committed by _record_event during the call
    aiResult,     \* the MatchResult ai_match returned, or the raised exception
    final,        \* pipeline: the article's final MatchResult (or the exception)
    stream,       \* the collected articles a caller takes its batches from
    sim,          \* cosine similarity (hundredths) of each pair of the stream
    articles,     \* deduplicate: the articles argument of the running call
    dpc,          \* deduplicate: "idle", "called", "returned", "raised"
    calls,        \* number of deduplicate calls made on the deduplicator
    model_loaded, \* ArticleDeduplicator._model: FALSE for None
    loads,        \* numbers of the calls in which SentenceTransformer(...) ran
    embedding,    \* the embedding step of the call: "none", "ok", "..._failed"
    groups,       \* deduplicate: index lists of the duplicate groups, in order
    deduplicated, \* what the deduplicate call returned, or the raised exception
    refs,         \* for each returned article: the input dict it is, 0 if new
    history,      \* InsurerMatcher: the match_article calls made on the instance
    results,      \* InsurerMatcher: the list the last match_batch returned
    ntext,        \* _normalize_text: the argument
    normalized,   \* _normalize_text(ntext)
    twice,        \* _normalize_text(_normalize_text(ntext))
    npc,          \* normalization: number of applications made, 0..2
    uf,           \* _UnionFind.parent of the instance uf
    links,        \* the pairs (x, y) of the union calls made on the _UnionFind
    last          \* the last _UnionFind call and, for find, what it returned

mvars  == <<mpc, matched_ids, result>>
aivars == <<client, aipc, attempt, outcomes, sleeps, context, parsed,
            parsed_confidence, recordCalls, events, aiResult>>
pvars  == <<final>>
dvars  == <<stream, sim, articles, dpc, calls, model_loaded, loads,
            embedding, groups, deduplicated, refs>>
hvars  == <<history, results>>
nvars  == <<ntext, normalized, twice, npc>>
uvars  == <<uf, links, last>>
vars   == <<article, insurers, mpc, matched_ids, result, client, aipc, attempt,
            outcomes, sleeps, context, parsed, parsed_confidence, recordCalls,
            events, aiResult,
            final, stream, sim, articles, dpc, calls, model_loaded, loads,
            embedding, groups, deduplicated, refs, history, results, ntext,
            normalized, twice, npc, uf, links, last>>

None == <<"<None>">>

(***************************************************************************)
(* Characters                                                              *)
(***************************************************************************)
Alphabet == <<"a", "b", "c", "d", "e", "f", "g", "h", "i", "j", "k", "l", "m",
              "n", "o", "p", "q", "r", "s", "t", "u", "v", "w", "x", "y", "z">>
Digits == <<"0", "1", "2", "3", "4", "5", "6", "7", "8", "9">>

LowerLetters == {Alphabet[k] : k \in 1..26}
UpperLetters == {"A", "E", "G", "I", "N", "S"}
DigitChars   == {Digits[k] : k \in 1..10}
Accented     == {"e_acute", "E_acute"}
Combining    == {"ACUTE"}
Whitespace   == {" "}
Punctuation  == {",", "."}

Chars == LowerLetters \cup UpperLetters \cup DigitChars \cup Accented
         \cup Combining \cup Whitespace \cup Punctuation \cup {"_"}

\* str.lower() of one character
Lower(c) ==
    CASE c = "A" -> "a"
      [] c = "E" -> "e"
      [] c = "G" -> "g"
      [] c = "I" -> "i"
      [] c = "N" -> "n"
      [] c = "S" -> "s"
      [] c = "E_acute" -> "e_acute"
      [] OTHER -> c

\* unicodedata.normalize('NFKD', c) of one character
NFKD(c) ==
    CASE c = "e_acute" -> <<"e", "ACUTE">>
      [] c = "E_acute" -> <<"E", "ACUTE">>
      [] OTHER -> <<c>>

\* unicodedata.combining(c) # 0
IsCombining(c) == c \in Combining

\* the class \w of a str pattern: alphanumeric or underscore
IsWordChar(c) ==
    c \in LowerLetters \cup UpperLetters \cup DigitChars \cup Accented \cup {"_"}

IsSpace(c) == c \in Whitespace

(***************************************************************************)
(* InsurerMatcher._normalize_text                                          *)
(***************************************************************************)
RECURSIVE Decompose(_)
Decompose(s) == IF s = << >> THEN << >> ELSE NFKD(Head(s)) \o Decompose(Tail(s))

\* variant: the combining marks are kept
StripCombiningKeep(s) == s

RECURSIVE StripCombining(_)
StripCombining(s) ==
    IF s = << >> THEN << >>
    ELSE IF IsCombining(Head(s)) THEN StripCombining(Tail(s))
    ELSE <<Head(s)>> \o StripCombining(Tail(s))

LowerStr(s) == [i \in 1..Len(s) |-> Lower(s[i])]

RECURSIVE LStrip(_)
LStrip(s) == IF s # << >> /\ IsSpace(Head(s)) THEN LStrip(Tail(s)) ELSE s

RECURSIVE RStrip(_)
RStrip(s) ==
    IF s # << >> /\ IsSpace(s[Len(s)]) THEN RStrip(SubSeq(s, 1, Len(s) - 1)) ELSE s

\* variant: at most one whitespace character is removed from each end
StripOne(s) ==
    LET l == IF s # << >> /\ IsSpace(Head(s)) THEN Tail(s) ELSE s
    IN  IF l # << >> /\ IsSpace(l[Len(l)]) THEN SubSeq(l, 1, Len(l) - 1) ELSE l

\* str.strip()
Strip(s) == RStrip(LStrip(s))

_normalize_text(text) ==
    IF text = None \/ text = << >> THEN << >>
    ELSE Strip(LowerStr(StripCombining(Decompose(text))))

(***************************************************************************)
(* InsurerMatcher._deterministic_match                                     *)
(***************************************************************************)
\* f"{value}" of a str or of None
Format(value) == IF value = None THEN <<"N", "o", "n", "e">> ELSE value

WordAt(s, i) == i \in 1..Len(s) /\ IsWordChar(s[i])

\* \b at the position between s[p-1] and s[p]
WordBoundary(s, p) == WordAt(s, p - 1) # WordAt(s, p)

\* re.search(rf'\b{re.escape(literal)}\b', content) is not None
re_search(literal, content) ==
    \E i \in 1..(Len(content) - Len(literal) + 1) :
        /\ SubSeq(content, i, i + Len(literal) - 1) = literal
        /\ WordBoundary(content, i)
        /\ WordBoundary(content, i + Len(literal))

\* str.split(',')
RECURSIVE SplitComma(_, _)
SplitComma(s, cur) ==
    IF s = << >> THEN <<cur>>
    ELSE IF Head(s) = "," THEN <<cur>> \o SplitComma(Tail(s), << >>)
    ELSE SplitComma(Tail(s), Append(cur, Head(s)))

\* [term.strip() for term in insurer.search_terms.split(',') if term.strip()]
RECURSIVE StripNonEmpty(_)
StripNonEmpty(parts) ==
    IF parts = << >> THEN << >>
    ELSE IF Strip(Head(parts)) = << >> THEN StripNonEmpty(Tail(parts))
    ELSE <<Strip(Head(parts))>> \o StripNonEmpty(Tail(parts))

search_terms_list(insurer) ==
    IF insurer.search_terms = None \/ insurer.search_terms = << >> THEN << >>
    ELSE StripNonEmpty(SplitComma(insurer.search_terms, << >>))

\* variant: the name minimum is 3 characters
NameTooShort3(name_normalized) == Len(name_normalized) < 3

\* if len(name_normalized) < 4
NameTooShort(name_normalized) == Len(name_normalized) < 4

\* if len(term_normalized) < 4
TermTooShort(term_normalized) == Len(term_normalized) < 4

\* for term in search_terms: ... break on the first hit
RECURSIVE TermLoop(_, _)
TermLoop(terms, content) ==
    IF terms = << >> THEN FALSE
    ELSE LET term_normalized == _normalize_text(Head(terms)) IN
         IF TermTooShort(term_normalized) THEN TermLoop(Tail(terms), content)
         ELSE IF re_search(term_normalized, content) THEN TRUE
         ELSE TermLoop(Tail(terms), content)

\* one iteration of the loop over insurers: does it append insurer.id
InsurerHit(insurer, content) ==
    LET name_normalized == _normalize_text(insurer.name) IN
    IF NameTooShort(name_normalized) THEN FALSE            \* continue
    ELSE IF re_search(name_normalized, content) THEN TRUE  \* append, continue
    ELSE TermLoop(search_terms_list(insurer), content)

\* for insurer in insurers: ... matched_ids.append(insurer.id), in roster order
InsurerLoop(roster, content) ==
    LET hits == SelectSeq(roster, LAMBDA insurer : InsurerHit(insurer, content))
    IN [k \in 1..Len(hits) |-> hits[k].id]

Content(art) ==
    _normalize_text(Format(art.title) \o <<" ">> \o Format(art.description))

_deterministic_match(art, roster) ==
    IF Content(art) = << >> THEN << >>
    ELSE InsurerLoop(roster, Content(art))

(***************************************************************************)
(* InsurerMatcher.match_article                                            *)
(***************************************************************************)
MatchResult(ids, conf, meth, why) ==
    [insurer_ids |-> ids, confidence |-> conf, method |-> meth, reasoning |-> why]

\* next(i for i in insurers if i.id == matched_ids[0])
FirstWithId(roster, id) ==
    roster[CHOOSE k \in 1..Len(roster) :
              /\ roster[k].id = id
              /\ \A j \in 1..(k - 1) : roster[j].id # id]

\* variant: 4 matches still count as a multi-insurer article
ArbiterWide(matched, roster) ==
    LET match_count == Len(matched) IN
    IF match_count = 1
    THEN MatchResult(matched, 95, "deterministic_single",
                     <<"Exact name match", FirstWithId(roster, matched[1]).name>>)
    ELSE IF 2 <= match_count /\ match_count <= 4
    THEN MatchResult(matched, 85, "deterministic_multi",
                     <<"Found name matches", match_count>>)
    ELSE IF match_count > 4
    THEN MatchResult(<< >>, 0, "unmatched", <<"Too many matches", match_count>>)
    ELSE MatchResult(<< >>, 0, "unmatched", <<"No clear deterministic match">>)

\* variant: the too-many branch keeps the matched ids
ArbiterKeepIds(matched, roster) ==
    LET match_count == Len(matched) IN
    IF match_count = 1
    THEN MatchResult(matched, 95, "deterministic_single",
                     <<"Exact name match", FirstWithId(roster, matched[1]).name>>)
    ELSE IF 2 <= match_count /\ match_count <= 3
    THEN MatchResult(matched, 85, "deterministic_multi",
                     <<"Found name matches", match_count>>)
    ELSE IF match_count > 3
    THEN MatchResult(matched, 0, "unmatched", <<"Too many matches", match_count>>)
    ELSE MatchResult(<< >>, 0, "unmatched", <<"No clear deterministic match">>)

Arbiter(matched, roster) ==
    LET match_count == Len(matched) IN
    IF match_count = 1
    THEN MatchResult(matched, 95, "deterministic_single",
                     <<"Exact name match", FirstWithId(roster, matched[1]).name>>)
    ELSE IF 2 <= match_count /\ match_count <= 3
    THEN MatchResult(matched, 85, "deterministic_multi",
                     <<"Found name matches", match_count>>)
    ELSE IF match_count > 3
    THEN MatchResult(<< >>, 0, "unmatched", <<"Too many matches", match_count>>)
    ELSE MatchResult(<< >>, 0, "unmatched", <<"No clear deterministic match">>)

match_article(art, roster) == Arbiter(_deterministic_match(art, roster), roster)

(***************************************************************************)
(* Inputs: articles and rosters                                            *)
(***************************************************************************)
MaxWords == 2

w_SulAmerica  == <<"S", "u", "l", "A", "m", "e", "r", "i", "c", "a">>
w_SulAmericaA == <<"S", "u", "l", "A", "m", "e_acute", "r", "i", "c", "a">>
w_Sul         == <<"S", "u", "l">>
w_AmericaA    == <<"A", "m", "e_acute", "r", "i", "c", "a">>
w_anuncia     == <<"a", "n", "u", "n", "c", "i", "a">>
w_resultado   == <<"r", "e", "s", "u", "l", "t", "a", "d", "o">>
w_sula        == <<"s", "u", "l", "a">>
w_AIG         == <<"A", "I", "G">>
w_abcDot      == <<"a", "b", "c", ".">>
w_abcDotX     == <<"a", "b", "c", ".", "x">>
w_porto       == <<"p", "o", "r", "t", "o">>
w_portos      == <<"p", "o", "r", "t", "o", "s">>
w_amil        == <<"a", "m", "i", "l">>
w_brasil      == <<"b", "r", "a", "s", "i", "l">>

Words == {w_SulAmericaA, w_Sul, w_AmericaA, w_sula, w_AIG, w_abcDot, w_abcDotX,
          w_porto, w_portos, w_amil}

RECURSIVE Join(_)
Join(ws) ==
    IF ws = << >> THEN << >>
    ELSE IF Len(ws) = 1 THEN ws[1]
    ELSE ws[1] \o <<" ">> \o Join(Tail(ws))

WordTexts == {Join(ws) : ws \in UNION {[1..n -> Words] : n \in 0..MaxWords}}

t_SulAmericaSpaced == Join(<<w_Sul, w_AmericaA, w_anuncia, w_resultado>>)
t_SulAmericaJoined == Join(<<w_SulAmericaA, w_anuncia, w_resultado>>)

Titles == WordTexts \cup {t_SulAmericaSpaced, t_SulAmericaJoined}

Descriptions == {<< >>, None}

Insurer(id, name, terms, enabled) ==
    [id |-> id, name |-> name, search_terms |-> terms, enabled |-> enabled]

\* rows of the insurers table, in roster order
Pool == <<
    Insurer(1, w_SulAmerica, None, TRUE),
    Insurer(2, w_sula, << >>, TRUE),
    Insurer(3, w_AIG, <<"a", "i", "g">>, TRUE),
    Insurer(4, w_AIG, <<"a", "b", ",", " ">> \o w_porto, FALSE),
    Insurer(5, w_abcDot, None, TRUE),
    Insurer(6, w_porto, None, TRUE),
    Insurer(7, w_amil, <<"x", "x", ",", " ">> \o w_porto \o <<" ", ",">>, FALSE),
    Insurer(8, w_brasil, w_sula \o <<",">> \o w_SulAmericaA, TRUE) >>

\* the rosters handed to the matcher: runs of consecutive rows
Rosters == {SubSeq(Pool, i, j) : i \in 1..(Len(Pool) + 1), j \in 0..Len(Pool)}

NoResult == [method |-> "none"]

InitAIIdle ==
    /\ client = FALSE
    /\ aipc = "idle"
    /\ attempt = 0
    /\ outcomes = << >>
    /\ sleeps = << >>
    /\ context = << >>
    /\ parsed = << >>
    /\ parsed_confidence = 0
    /\ recordCalls = << >>
    /\ events = << >>
    /\ aiResult = NoResult

\* no article resolved yet
InitPipeIdle == final = NoResult

\* a fresh InsurerMatcher: no call made yet
InitRepeatIdle ==
    /\ history = << >>
    /\ results = << >>

\* no text normalized
InitNormIdle ==
    /\ ntext = << >>
    /\ normalized = << >>
    /\ twice = << >>
    /\ npc = 0

\* no _UnionFind constructed
InitUFIdle ==
    /\ uf = << >>
    /\ links = {}
    /\ last = [op |-> "none"]

\* a fresh ArticleDeduplicator (_model is None) that is never called
InitDedupIdle ==
    /\ stream = << >>
    /\ sim = << >>
    /\ articles = << >>
    /\ dpc = "idle"
    /\ calls = 0
    /\ model_loaded = FALSE
    /\ loads = << >>
    /\ embedding = "none"
    /\ groups = << >>
    /\ deduplicated = << >>
    /\ refs = << >>

(***************************************************************************)
(* AIInsurerMatcher.ai_match: the insurer context                          *)
(***************************************************************************)
MAX_INSURER_CONTEXT == 200

IndexIn(seq, c) == CHOOSE k \in 1..Len(seq) : seq[k] = c

\* ord(c): the code point that orders str comparison
OrdTable ==
    [c \in Chars |->
        CASE c = " " -> 32
          [] c = "," -> 44
          [] c = "." -> 46
          [] c = "_" -> 95
          [] c = "E_acute" -> 201
          [] c = "e_acute" -> 233
          [] c = "ACUTE" -> 769
          [] c \in DigitChars -> 47 + IndexIn(Digits, c)
          [] c \in LowerLetters -> 96 + IndexIn(Alphabet, c)
          [] c \in UpperLetters -> 64 + IndexIn(Alphabet, Lower(c))]

Ord(c) == OrdTable[c]

\* a < b for two str
RECURSIVE StrLess(_, _)
StrLess(a, b) ==
    IF b = << >> THEN FALSE
    ELSE IF a = << >> THEN TRUE
    ELSE IF Head(a) = Head(b) THEN StrLess(Tail(a), Tail(b))
    ELSE Ord(Head(a)) < Ord(Head(b))

\* variant: the names are compared as written, capitals before small letters
KeyLessCased(x, y) ==
    IF x.enabled # y.enabled THEN x.enabled
    ELSE StrLess(x.name, y.name)

\* key=lambda ins: (not ins.enabled, ins.name.lower()), compared as tuples
KeyLess(x, y) ==
    IF x.enabled # y.enabled THEN x.enabled
    ELSE StrLess(LowerStr(x.name), LowerStr(y.name))

\* sorted(roster, key=...): a stable sort, rows of equal key keep roster order
SortedInsurers(roster) ==
    LET indexed == [k \in 1..Len(roster) |-> <<k, roster[k]>>]
        Before(x, y) == \/ KeyLess(x[2], y[2])
                        \/ (~KeyLess(y[2], x[2]) /\ x[1] < y[1])
        ordered == SortSeq(indexed, Before)
    IN [k \in 1..Len(ordered) |-> ordered[k][2]]

\* sorted_insurers after the truncation to MAX_INSURER_CONTEXT
ContextInsurers(roster) ==
    LET sorted_insurers == SortedInsurers(roster) IN
    IF Len(sorted_insurers) > MAX_INSURER_CONTEXT
    THEN SubSeq(sorted_insurers, 1, MAX_INSURER_CONTEXT)
    ELSE sorted_insurers

\* variant: the ids of the whole roster are valid, truncated or not
ValidInsurerIdsRoster(sorted_insurers) ==
    {insurers[k].id : k \in 1..Len(insurers)}

\* valid_insurer_ids = {ins.id for ins in sorted_insurers}
ValidInsurerIds(sorted_insurers) ==
    {sorted_insurers[k].id : k \in 1..Len(sorted_insurers)}

\* [ins_id for ins_id in parsed_result.insurer_ids if ins_id in valid_insurer_ids]
ValidatedIds(ids, valid_insurer_ids) ==
    SelectSeq(ids, LAMBDA ins_id : ins_id \in valid_insurer_ids)

MaxIds == 2
FillerCount == 198

\* "seg" followed by the three digits of i
FillerName(i) ==
    <<"s", "e", "g", Digits[((i \div 100) % 10) + 1],
      Digits[((i \div 10) % 10) + 1], Digits[(i % 10) + 1]>>

Filler(n) == [i \in 1..n |-> Insurer(1000 + i, FillerName(i), None, TRUE)]

\* rosters of the AI matcher: leading rows of the table, alone or followed by
\* enough further rows to exceed MAX_INSURER_CONTEXT
PrefixLens == {0, 2, 3, 6, 8}
PipeRosters ==
    {SubSeq(Pool, 1, j) \o Filler(n) : j \in PrefixLens, n \in {0, FillerCount}}

PipeTitles == {<< >>, None, w_porto, Join(<<w_SulAmericaA, w_porto>>)}

\* what the completion service may answer
ModelIds == {1, 3, 999}
ModelIdLists == UNION {[1..n -> ModelIds] : n \in 0..MaxIds}
ModelConfidences == {0, 90}

(***************************************************************************)
(* AIInsurerMatcher.ai_match under its tenacity retry decorator            *)
(***************************************************************************)
MAX_ATTEMPTS == 2
WAIT_MIN == 2
WAIT_MAX == 10

\* exceptions the completion request or the handling of its response raises
TransientErrors == {"APITimeoutError", "APIConnectionError"}
ResponseErrors  == {"ValidationError"}
CompletionErrors == TransientErrors \cup ResponseErrors

RECURSIVE Pow2(_)
Pow2(n) == IF n = 0 THEN 1 ELSE 2 * Pow2(n - 1)

Max(a, b) == IF a >= b THEN a ELSE b
Min(a, b) == IF a <= b THEN a ELSE b

\* wait_exponential(multiplier=1, min=2, max=10) after the given attempt
WaitExponential(attempt_number) ==
    Max(WAIT_MIN, Min(1 * Pow2(attempt_number - 1), WAIT_MAX))

\* article.get("title", "")[:200] and article.get("description", "")[:500]
\* raise TypeError on None
PromptRaises(art) == art.title = None \/ art.description = None

\* the MatchResult returned when self.client is None
UnavailableResult ==
    MatchResult(<< >>, 0, "unmatched", <<"AI matching unavailable">>)

\* variant: the reasoning carries str(exc) in place of the exception type
FailureResultMessage(exc) ==
    MatchResult(<< >>, 0, "unmatched", <<"AI match failed", "message">>)

\* the MatchResult returned by the except branch: names type(exc).__name__
FailureResult(exc) ==
    MatchResult(<< >>, 0, "unmatched", <<"AI match failed", exc>>)

\* self._record_event(...): the row is committed unless the session fails
RecordEvent(success, detail, db_ok) ==
    /\ recordCalls' = Append(recordCalls, success)
    /\ events' = IF db_ok
                 THEN Append(events, [api_name |-> "ai_matcher",
                                      success |-> success, detail |-> detail])
                 ELSE events

\* the caller invokes ai_match: tenacity starts the first attempt
AiMatchCall ==
    /\ aipc = "idle"
    /\ aipc' = "body"
    /\ attempt' = 1
    /\ UNCHANGED <<article, insurers, client, outcomes, sleeps, context, parsed,
                   parsed_confidence, recordCalls, events, aiResult>>
    /\ UNCHANGED mvars
    /\ UNCHANGED <<pvars, dvars, hvars, nvars, uvars>>

\* variant: an unconfigured client is reported by raising
AiMatchUnavailableRaises ==
    /\ aipc = "body"
    /\ ~client
    /\ aiResult' = [method |-> "raised", exception |-> "RuntimeError"]
    /\ aipc' = "raised"
    /\ UNCHANGED <<article, insurers, client, attempt, outcomes, sleeps, context,
                   parsed, parsed_confidence, recordCalls, events>>
    /\ UNCHANGED mvars
    /\ UNCHANGED <<pvars, dvars, hvars, nvars, uvars>>

\* if self.client is None: return MatchResult(... "unmatched" ...)
AiMatchUnavailable ==
    /\ aipc = "body"
    /\ ~client
    /\ aiResult' = UnavailableResult
    /\ aipc' = "returned"
    /\ UNCHANGED <<article, insurers, client, attempt, outcomes, sleeps, context,
                   parsed, parsed_confidence, recordCalls, events>>
    /\ UNCHANGED mvars
    /\ UNCHANGED <<pvars, dvars, hvars, nvars, uvars>>

\* the prompt building before the try raises: the exception leaves the body
\* and tenacity retries it or, after the last attempt, raises RetryError
AiMatchPromptError ==
    /\ aipc = "body"
    /\ client
    /\ PromptRaises(article)
    /\ \E sorted_insurers \in {ContextInsurers(insurers)} :
          context' = [k \in 1..Len(sorted_insurers) |-> sorted_insurers[k].id]
    /\ IF attempt < MAX_ATTEMPTS
       THEN /\ aipc' = "backoff"
            /\ UNCHANGED aiResult
       ELSE /\ aipc' = "raised"
            /\ aiResult' = [method |-> "raised", exception |-> "RetryError"]
    /\ UNCHANGED <<article, insurers, client, attempt, outcomes, sleeps, parsed,
                   parsed_confidence, recordCalls, events>>
    /\ UNCHANGED mvars
    /\ UNCHANGED <<pvars, dvars, hvars, nvars, uvars>>

\* tenacity sleeps and runs the body again
AiMatchRetry ==
    /\ aipc = "backoff"
    /\ sleeps' = Append(sleeps, WaitExponential(attempt))
    /\ attempt' = attempt + 1
    /\ aipc' = "body"
    /\ UNCHANGED <<article, insurers, client, outcomes, context, parsed,
                   parsed_confidence, recordCalls, events, aiResult>>
    /\ UNCHANGED mvars
    /\ UNCHANGED <<pvars, dvars, hvars, nvars, uvars>>

\* variant: a response without a valid id is returned as "unmatched"
AiMatchSuccessEmptyUnmatched ==
    /\ aipc = "body"
    /\ client
    /\ ~PromptRaises(article)
    /\ \E sorted_insurers \in {ContextInsurers(insurers)} :
       \E ids \in ModelIdLists, confidence \in ModelConfidences, db_ok \in BOOLEAN :
          LET validated_ids == ValidatedIds(ids, ValidInsurerIds(sorted_insurers)) IN
          /\ context' = [k \in 1..Len(sorted_insurers) |-> sorted_insurers[k].id]
          /\ outcomes' = Append(outcomes, "ok")
          /\ parsed' = ids
          /\ parsed_confidence' = confidence
          /\ RecordEvent(TRUE, <<validated_ids, confidence>>, db_ok)
          /\ aiResult' = IF validated_ids = << >>
                         THEN MatchResult(<< >>, 0, "unmatched", <<"model reasoning">>)
                         ELSE MatchResult(validated_ids, confidence,
                                          "ai_disambiguation", <<"model reasoning">>)
    /\ aipc' = "returned"
    /\ UNCHANGED <<article, insurers, client, attempt, sleeps>>
    /\ UNCHANGED mvars
    /\ UNCHANGED <<pvars, dvars, hvars, nvars, uvars>>

\* variant: a failed event write is caught by the except branch of ai_match
AiMatchSuccessUnguarded ==
    /\ aipc = "body"
    /\ client
    /\ ~PromptRaises(article)
    /\ \E sorted_insurers \in {ContextInsurers(insurers)} :
       \E ids \in ModelIdLists, confidence \in ModelConfidences, db_ok \in BOOLEAN :
          LET validated_ids == ValidatedIds(ids, ValidInsurerIds(sorted_insurers)) IN
          /\ context' = [k \in 1..Len(sorted_insurers) |-> sorted_insurers[k].id]
          /\ outcomes' = Append(outcomes, "ok")
          /\ parsed' = ids
          /\ parsed_confidence' = confidence
          /\ RecordEvent(TRUE, <<validated_ids, confidence>>, db_ok)
          /\ aiResult' = IF db_ok
                         THEN MatchResult(validated_ids, confidence,
                                          "ai_disambiguation", <<"model reasoning">>)
                         ELSE FailureResult("OperationalError")
    /\ aipc' = "returned"
    /\ UNCHANGED <<article, insurers, client, attempt, sleeps>>
    /\ UNCHANGED mvars
    /\ UNCHANGED <<pvars, dvars, hvars, nvars, uvars>>

\* the completion request returns parsed_result: validate, record, return
AiMatchSuccess ==
    /\ aipc = "body"
    /\ client
    /\ ~PromptRaises(article)
    /\ \E sorted_insurers \in {ContextInsurers(insurers)} :
       \E ids \in ModelIdLists, confidence \in ModelConfidences, db_ok \in BOOLEAN :
          LET validated_ids == ValidatedIds(ids, ValidInsurerIds(sorted_insurers)) IN
          /\ context' = [k \in 1..Len(sorted_insurers) |-> sorted_insurers[k].id]
          /\ outcomes' = Append(outcomes, "ok")
          /\ parsed' = ids
          /\ parsed_confidence' = confidence
          /\ RecordEvent(TRUE, <<validated_ids, confidence>>, db_ok)
          /\ aiResult' = MatchResult(validated_ids, confidence, "ai_disambiguation",
                                     <<"model reasoning">>)
    /\ aipc' = "returned"
    /\ UNCHANGED <<article, insurers, client, attempt, sleeps>>
    /\ UNCHANGED mvars
    /\ UNCHANGED <<pvars, dvars, hvars, nvars, uvars>>

\* variant: the exception leaves the body and tenacity retries it
AiMatchFailureRetried ==
    /\ aipc = "body"
    /\ client
    /\ ~PromptRaises(article)
    /\ \E sorted_insurers \in {ContextInsurers(insurers)} :
       \E exc \in CompletionErrors, db_ok \in BOOLEAN :
          /\ context' = [k \in 1..Len(sorted_insurers) |-> sorted_insurers[k].id]
          /\ outcomes' = Append(outcomes, exc)
          /\ RecordEvent(FALSE, <<exc>>, db_ok)
          /\ IF attempt < MAX_ATTEMPTS
             THEN /\ aipc' = "backoff"
                  /\ UNCHANGED aiResult
             ELSE /\ aipc' = "returned"
                  /\ aiResult' = FailureResult(exc)
    /\ UNCHANGED <<article, insurers, client, attempt, sleeps, parsed,
                   parsed_confidence>>
    /\ UNCHANGED mvars
    /\ UNCHANGED <<pvars, dvars, hvars, nvars, uvars>>

\* the completion request or the handling of its response raises exc:
\* except Exception records the failure and returns "unmatched"
AiMatchFailure ==
    /\ aipc = "body"
    /\ client
    /\ ~PromptRaises(article)
    /\ \E sorted_insurers \in {ContextInsurers(insurers)} :
       \E exc \in CompletionErrors, db_ok \in BOOLEAN :
          /\ context' = [k \in 1..Len(sorted_insurers) |-> sorted_insurers[k].id]
          /\ outcomes' = Append(outcomes, exc)
          /\ RecordEvent(FALSE, <<exc>>, db_ok)
          /\ aiResult' = FailureResult(exc)
    /\ aipc' = "returned"
    /\ UNCHANGED <<article, insurers, client, attempt, sleeps, parsed,
                   parsed_confidence>>
    /\ UNCHANGED mvars
    /\ UNCHANGED <<pvars, dvars, hvars, nvars, uvars>>

\* result = matcher.match_article(article, insurers)
MatchArticle ==
    /\ mpc = "ready"
    /\ matched_ids' = _deterministic_match(article, insurers)
    /\ result' = match_article(article, insurers)
    /\ mpc' = "done"
    /\ UNCHANGED <<article, insurers>>
    /\ UNCHANGED aivars
    /\ UNCHANGED <<pvars, dvars, hvars, nvars, uvars>>

(***************************************************************************)
(* app/services/deduplicator.py: _UnionFind                                *)
(*                                                                         *)
(* Articles of a call are numbered 1..n here (0..n-1 in the code).         *)
(***************************************************************************)
\* self.parent = list(range(n))
UnionFindInit(n) == [x \in 1..n |-> x]

\* find with path compression: returns the root and the updated parent
RECURSIVE find(_, _)
find(parent, x) ==
    IF parent[x] = x
    THEN [parent |-> parent, root |-> x]
    ELSE LET halved == [parent EXCEPT ![x] = parent[parent[x]]]
         IN  find(halved, halved[x])

\* variant: x itself, whether a root or not, is hung below y
unionDirect(parent, x, y) ==
    IF x # y THEN [parent EXCEPT ![x] = y] ELSE parent

\* px, py = find(x), find(y); if px != py: parent[px] = py
union(parent, x, y) ==
    LET fx == find(parent, x)
        fy == find(fx.parent, y)
    IN  IF fx.root # fy.root
        THEN [fy.parent EXCEPT ![fx.root] = fy.root]
        ELSE fy.parent

(***************************************************************************)
(* ArticleDeduplicator.deduplicate: grouping                               *)
(***************************************************************************)
SIMILARITY_THRESHOLD == 85

\* for i in range(n): for j in range(i + 1, n): the pairs in loop order
PairsOf(n) ==
    LET all == [k \in 1..(n * n) |-> <<((k - 1) \div n) + 1, ((k - 1) % n) + 1>>]
    IN  SelectSeq(all, LAMBDA p : p[1] < p[2])

\* variant: a similarity equal to the threshold is no duplicate
IsDuplicateStrict(similarity) == similarity > SIMILARITY_THRESHOLD

\* if similarity >= self.similarity_threshold
IsDuplicate(similarity) == similarity >= SIMILARITY_THRESHOLD

\* the double loop over the similarity matrix, from pair number k on
RECURSIVE UnionLoop(_, _, _, _)
UnionLoop(parent, pairs, similarities, k) ==
    IF k > Len(pairs)
    THEN parent
    ELSE LET p == pairs[k]
         IN  UnionLoop(IF IsDuplicate(similarities[p])
                       THEN union(parent, p[1], p[2])
                       ELSE parent,
                       pairs, similarities, k + 1)

\* groups: Dict[int, List[int]] filled for i in range(n) with root = find(i);
\* a dict keeps its keys in insertion order
RECURSIVE GroupLoop(_, _, _, _)
GroupLoop(parent, n, i, grouped) ==
    IF i > n
    THEN grouped
    ELSE LET f == find(parent, i)
             known == {k \in 1..Len(grouped) : grouped[k].root = f.root}
         IN  GroupLoop(f.parent, n, i + 1,
                IF known = {}
                THEN Append(grouped, [root |-> f.root, indices |-> <<i>>])
                ELSE [k \in 1..Len(grouped) |->
                        IF k \in known
                        THEN [grouped[k] EXCEPT !.indices = Append(@, i)]
                        ELSE grouped[k]])

\* groups.values() of the call on n articles with the given similarities
GroupsOf(n, similarities) ==
    LET parent == UnionLoop(UnionFindInit(n), PairsOf(n), similarities, 1)
        grouped == GroupLoop(parent, n, 1, << >>)
    IN  [k \in 1..Len(grouped) |-> grouped[k].indices]

(***************************************************************************)
(* ArticleDeduplicator._merge_articles                                     *)
(***************************************************************************)
NoDate == 0          \* published_at is None
DATETIME_MAX == 9999 \* datetime.max

\* variant: articles without published_at sort first
SortKeyNoneFirst(a) == a.published_at

\* key=lambda a: a.get('published_at') or datetime.max
SortKey(a) == IF a.published_at = NoDate THEN DATETIME_MAX ELSE a.published_at

\* sorted(group_articles, key=...): stable, ascending
SortedArticles(group_articles) ==
    LET order == SortSeq([k \in 1..Len(group_articles) |-> k],
                    LAMBDA j, k :
                        \/ SortKey(group_articles[j]) < SortKey(group_articles[k])
                        \/ /\ SortKey(group_articles[j]) = SortKey(group_articles[k])
                           /\ j < k)
    IN  [k \in 1..Len(group_articles) |-> group_articles[order[k]]]

\* a Python value is truthy: neither None nor the empty string
Truthy(s) == s # None /\ s # << >>

\* variant: every source name is kept, repeated or not
AllSources(sorted_articles) ==
    [k \in 1..Len(sorted_articles) |-> sorted_articles[k].source_name]

\* for article in sorted_articles: if source not in seen_sources: append
UniqueSources(sorted_articles) ==
    LET keep == SelectSeq([k \in 1..Len(sorted_articles) |-> k],
                    LAMBDA k :
                        \A j \in 1..(k - 1) :
                            sorted_articles[j].source_name #
                            sorted_articles[k].source_name)
    IN  [k \in 1..Len(keep) |-> sorted_articles[keep[k]].source_name]

\* ", ".join(sources)
RECURSIVE JoinComma(_)
JoinComma(sources) ==
    IF Len(sources) = 0 THEN << >>
    ELSE IF Len(sources) = 1 THEN sources[1]
    ELSE sources[1] \o <<", ">> \o JoinComma(Tail(sources))

\* variant: among the longest descriptions the last one wins
MaxByLenLast(descriptions) ==
    descriptions[CHOOSE k \in 1..Len(descriptions) :
        /\ \A j \in 1..Len(descriptions) :
              Len(descriptions[j]) <= Len(descriptions[k])
        /\ \A j \in (k + 1)..Len(descriptions) :
              Len(descriptions[j]) < Len(descriptions[k])]

\* max(descriptions, key=len): the first of the longest
MaxByLen(descriptions) ==
    descriptions[CHOOSE k \in 1..Len(descriptions) :
        /\ \A j \in 1..Len(descriptions) :
              Len(descriptions[j]) <= Len(descriptions[k])
        /\ \A j \in 1..(k - 1) :
              Len(descriptions[j]) < Len(descriptions[k])]

\* _merge_articles(articles, indices): the merged copy of the earliest article
_merge_articles(arts, indices) ==
    LET group_articles == [k \in 1..Len(indices) |-> arts[indices[k]]]
        sorted_articles == SortedArticles(group_articles)
        keeper == sorted_articles[1]
        sources == UniqueSources(sorted_articles)
        descriptions ==
            SelectSeq([k \in 1..Len(sorted_articles) |->
                          sorted_articles[k].description], Truthy)
    IN  [keeper EXCEPT
            !.source_name = JoinComma(sources),
            !.description = IF descriptions # << >>
                            THEN MaxByLen(descriptions)
                            ELSE @]

\* the place in the input of sorted_articles[0], the base of the group
BaseIndex(arts, indices) ==
    LET keeper == SortedArticles([k \in 1..Len(indices) |-> arts[indices[k]]])[1]
    IN  indices[CHOOSE k \in 1..Len(indices) :
            /\ arts[indices[k]] = keeper
            /\ \A j \in 1..(k - 1) : arts[indices[j]] # keeper]

\* variant: the base article itself is the keeper
KeeperRefAlias(base_index) == base_index

\* keeper = sorted_articles[0].copy(): a new dict, none of the input dicts
KeeperRef(base_index) == 0

\* which dict each element of the returned list is: the merged copy of a group
\* or, for a group of one, the input dict articles[group_indices[0]]
Refs(arts, grouped) ==
    [k \in 1..Len(grouped) |->
        IF Len(grouped[k]) > 1
        THEN KeeperRef(BaseIndex(arts, grouped[k]))
        ELSE grouped[k][1]]

\* the input dicts after the call: the assignments to keeper['source_name'] and
\* keeper['description'] show in an input dict exactly when keeper is that dict
InputAfter(arts, returned, rf) ==
    [i \in 1..Len(arts) |->
        IF \E k \in 1..Len(rf) : rf[k] = i /\ Len(returned) >= k
        THEN returned[CHOOSE k \in 1..Len(rf) : rf[k] = i]
        ELSE arts[i]]

\* the merge loop over groups.values()
Deduplicated(arts, grouped) ==
    [k \in 1..Len(grouped) |->
        IF Len(grouped[k]) > 1
        THEN _merge_articles(arts, grouped[k])
        ELSE arts[grouped[k][1]]]

(***************************************************************************)
(* Inputs of the deduplicator                                              *)
(***************************************************************************)
MaxArticles == 3   \* longest article list handed to deduplicate
MaxCalls == 2      \* longest sequence of deduplicate calls on one instance

DedupArticle(title, description, source_name, published_at) ==
    [title |-> title, description |-> description,
     source_name |-> source_name, published_at |-> published_at]

\* scraped articles: equal and missing timestamps, repeated and empty source
\* names, descriptions that are missing, empty, short and of equal length
ArticlePool ==
    << DedupArticle(<<"t1">>, <<"a", "b", "c">>, <<"Valor">>, 2),
       DedupArticle(<<"t2">>, <<"x">>, <<"Reuters">>, 1),
       DedupArticle(<<"t3">>, <<"d", "e", "f">>, <<"Valor">>, NoDate),
       DedupArticle(<<"t4">>, None, <<"Bloomberg">>, 1),
       DedupArticle(<<"t5">>, << >>, << >>, NoDate) >>

Injective(f) == \A j, k \in DOMAIN f : f[j] = f[k] => j = k

\* article lists of pairwise different articles, in every order
StreamsOfLen(n) ==
    {[k \in 1..n |-> ArticlePool[f[k]]] :
        f \in {g \in [1..n -> 1..Len(ArticlePool)] : Injective(g)}}
Streams == UNION {StreamsOfLen(n) : n \in 0..MaxArticles}

\* util.cos_sim of two different texts, in hundredths
SimValues == {10, 85, 90}
PairSet(n) == {p \in (1..n) \X (1..n) : p[1] < p[2]}
Similarities(n) == [PairSet(n) -> SimValues]

Raised(exc) == <<[exception |-> exc]>>

(***************************************************************************)
(* ArticleDeduplicator.deduplicate                                         *)
(***************************************************************************)
\* a caller invokes deduplicate(batch)
Call(batch) ==
    /\ dpc \in {"idle", "returned", "raised"}
    /\ articles' = batch
    /\ dpc' = "called"
    /\ calls' = calls + 1
    /\ embedding' = "none"
    /\ groups' = << >>
    /\ deduplicated' = << >>
    /\ refs' = << >>
    /\ UNCHANGED <<stream, sim, model_loaded, loads>>
    /\ UNCHANGED <<article, insurers>>
    /\ UNCHANGED <<mvars, aivars, pvars, hvars, nvars, uvars>>

\* the pipeline deduplicates the collected articles once
DedupCall ==
    /\ calls = 0
    /\ Call(stream)

\* a long-lived deduplicator is called again and again with batches
DedupCallBatch ==
    /\ calls < MaxCalls
    /\ \E k \in 0..Len(stream) : Call(SubSeq(stream, 1, k))

\* variant: a list too short to hold duplicates comes back empty
DedupSkippedEmpty ==
    /\ dpc = "called"
    /\ Len(articles) <= 1
    /\ deduplicated' = << >>
    /\ refs' = << >>
    /\ dpc' = "returned"
    /\ UNCHANGED <<stream, sim, articles, calls, model_loaded, loads, groups,
                   embedding>>
    /\ UNCHANGED <<article, insurers>>
    /\ UNCHANGED <<mvars, aivars, pvars, hvars, nvars, uvars>>

\* if len(articles) <= 1: return articles
DedupSkipped ==
    /\ dpc = "called"
    /\ Len(articles) <= 1
    /\ deduplicated' = articles
    /\ refs' = [k \in 1..Len(articles) |-> k]
    /\ dpc' = "returned"
    /\ UNCHANGED <<stream, sim, articles, calls, model_loaded, loads, groups,
                   embedding>>
    /\ UNCHANGED <<article, insurers>>
    /\ UNCHANGED <<mvars, aivars, pvars, hvars, nvars, uvars>>

\* variant: the model is constructed by every call that encodes
LoadModelAlways ==
    /\ model_loaded' = TRUE
    /\ loads' = Append(loads, calls)

\* _load_model: if self._model is None: self._model = SentenceTransformer(...)
LoadModel ==
    IF model_loaded
    THEN UNCHANGED <<model_loaded, loads>>
    ELSE /\ model_loaded' = TRUE
         /\ loads' = Append(loads, calls)

\* SentenceTransformer(...) raises inside _load_model: _model stays None and
\* the exception leaves deduplicate
DedupLoadRaises ==
    /\ dpc = "called"
    /\ Len(articles) > 1
    /\ ~model_loaded
    /\ embedding' = "load_failed"
    /\ deduplicated' = Raised("OSError")
    /\ dpc' = "raised"
    /\ UNCHANGED <<stream, sim, articles, calls, model_loaded, loads, groups,
                   refs>>
    /\ UNCHANGED <<article, insurers>>
    /\ UNCHANGED <<mvars, aivars, pvars, hvars, nvars, uvars>>

\* self._model.encode(...) raises: the exception leaves deduplicate
DedupEncodeRaises ==
    /\ dpc = "called"
    /\ Len(articles) > 1
    /\ LoadModel
    /\ embedding' = "encode_failed"
    /\ deduplicated' = Raised("RuntimeError")
    /\ dpc' = "raised"
    /\ UNCHANGED <<stream, sim, articles, calls, groups, refs>>
    /\ UNCHANGED <<article, insurers>>
    /\ UNCHANGED <<mvars, aivars, pvars, hvars, nvars, uvars>>

\* load, encode, cos_sim, union the duplicates, group, merge, return
DedupMerged ==
    /\ dpc = "called"
    /\ Len(articles) > 1
    /\ LoadModel
    /\ embedding' = "ok"
    /\ \E grouped \in {GroupsOf(Len(articles), sim)} :
          /\ groups' = grouped
          /\ deduplicated' = Deduplicated(articles, grouped)
          /\ refs' = Refs(articles, grouped)
          /\ articles' = InputAfter(articles, Deduplicated(articles, grouped),
                                    Refs(articles, grouped))
    /\ dpc' = "returned"
    /\ UNCHANGED <<stream, sim, calls>>
    /\ UNCHANGED <<article, insurers>>
    /\ UNCHANGED <<mvars, aivars, pvars, hvars, nvars, uvars>>

(***************************************************************************)
(* Repeated calls on one InsurerMatcher: match_article and match_batch     *)
(***************************************************************************)
MaxHistory == 3   \* longest sequence of match_article calls on the instance

RepeatArticles ==
    {[title |-> w_porto, description |-> << >>],
     [title |-> Join(<<w_SulAmericaA, w_porto>>), description |-> None],
     [title |-> w_AIG, description |-> << >>]}
RepeatRosters == {Pool, SubSeq(Pool, 1, 3)}
RepeatBatches == UNION {[1..n -> RepeatArticles] : n \in 0..2}

\* what one match_article call leaves behind: the arguments as they were
\* passed, as they are after the call, and the MatchResult returned
CallRecord(art, roster, art_after, roster_after, res) ==
    [article |-> art, insurers |-> roster, article_after |-> art_after,
     insurers_after |-> roster_after, result |-> res]

\* variant: matched_ids is kept on the instance and grows from call to call
MatchArticleRepeatSticky ==
    /\ Len(history) < MaxHistory
    /\ \E art \in RepeatArticles, roster \in RepeatRosters :
          LET kept == matched_ids \o _deterministic_match(art, roster) IN
          /\ article' = art
          /\ insurers' = roster
          /\ matched_ids' = kept
          /\ result' = Arbiter(kept, roster)
          /\ history' = Append(history,
                CallRecord(art, roster, art, roster, Arbiter(kept, roster)))
    /\ mpc' = "done"
    /\ UNCHANGED results
    /\ UNCHANGED <<aivars, pvars, dvars, nvars, uvars>>

\* result = matcher.match_article(article, insurers), on a used instance:
\* the call reads its arguments and assigns only to local names
MatchArticleRepeat ==
    /\ Len(history) < MaxHistory
    /\ \E art \in RepeatArticles, roster \in RepeatRosters :
          /\ article' = art
          /\ insurers' = roster
          /\ matched_ids' = _deterministic_match(art, roster)
          /\ result' = match_article(art, roster)
          /\ history' = Append(history,
                CallRecord(art, roster, art, roster, match_article(art, roster)))
    /\ mpc' = "done"
    /\ UNCHANGED results
    /\ UNCHANGED <<aivars, pvars, dvars, nvars, uvars>>

\* results = matcher.match_batch(articles, insurers): match_article for each
\* article in turn; stats is a local dict that is only logged
MatchBatch ==
    /\ \E batch \in RepeatBatches, roster \in RepeatRosters :
          /\ Len(history) + Len(batch) <= MaxHistory
          /\ results' = [k \in 1..Len(batch) |-> match_article(batch[k], roster)]
          /\ history' = history \o
                [k \in 1..Len(batch) |->
                    CallRecord(batch[k], roster, batch[k], roster,
                               match_article(batch[k], roster))]
          /\ insurers' = roster
          /\ IF batch = << >>
             THEN UNCHANGED <<article, matched_ids, result, mpc>>
             ELSE /\ article' = batch[Len(batch)]
                  /\ matched_ids' = _deterministic_match(batch[Len(batch)], roster)
                  /\ result' = match_article(batch[Len(batch)], roster)
                  /\ mpc' = "done"
    /\ UNCHANGED <<aivars, pvars, dvars, nvars, uvars>>

(***************************************************************************)
(* _normalize_text applied to its own output                               *)
(***************************************************************************)
MaxTextLen == 3   \* longest text normalised

NormChars == {"a", "A", "e_acute", "E_acute", "ACUTE", " ", "."}
NormTexts == {None} \cup UNION {[1..n -> NormChars] : n \in 0..MaxTextLen}

\* once = self._normalize_text(text)
NormalizeOnce ==
    /\ npc = 0
    /\ normalized' = _normalize_text(ntext)
    /\ npc' = 1
    /\ UNCHANGED <<ntext, twice>>
    /\ UNCHANGED <<article, insurers, mvars, aivars, pvars, dvars, hvars, uvars>>

\* again = self._normalize_text(once)
NormalizeAgain ==
    /\ npc = 1
    /\ twice' = _normalize_text(normalized)
    /\ npc' = 2
    /\ UNCHANGED <<ntext, normalized>>
    /\ UNCHANGED <<article, insurers, mvars, aivars, pvars, dvars, hvars, uvars>>

(***************************************************************************)
(* Rosters and texts for the search-term fallback                          *)
(***************************************************************************)
w_xx == <<"x", "x">>

\* insurers with a name of 4 characters or more and search terms: several
\* terms, a short term, a term that ends in a full stop
TermPool == <<
    Insurer(7, w_amil, <<"x", "x", ",", " ">> \o w_porto \o <<" ", ",">>, FALSE),
    Insurer(8, w_brasil, w_sula \o <<",">> \o w_SulAmericaA, TRUE),
    Insurer(9, w_anuncia, w_abcDot, TRUE),
    Insurer(10, w_resultado, w_xx, TRUE) >>

TermRosters ==
    {SubSeq(TermPool, i, j) : i \in 1..(Len(TermPool) + 1), j \in 0..Len(TermPool)}

TermWords == {w_sula, w_SulAmericaA, w_porto, w_abcDot, w_abcDotX, w_xx, w_brasil}
TermTitles == {Join(ws) : ws \in UNION {[1..n -> TermWords] : n \in 0..MaxWords}}

(***************************************************************************)
(* _UnionFind driven by arbitrary calls                                    *)
(***************************************************************************)
UFSize == 3   \* largest n of _UnionFind(n)

\* root = uf.find(x)
UFFind ==
    /\ uf # << >>
    /\ \E x \in 1..Len(uf) :
          /\ uf' = find(uf, x).parent
          /\ last' = [op |-> "find", x |-> x, root |-> find(uf, x).root,
                      before |-> uf]
    /\ UNCHANGED links
    /\ UNCHANGED <<article, insurers, mvars, aivars, pvars, dvars, hvars, nvars>>

\* uf.union(x, y)
UFUnion ==
    /\ uf # << >>
    /\ \E x, y \in 1..Len(uf) :
          /\ uf' = union(uf, x, y)
          /\ links' = IF x # y THEN links \cup {{x, y}} ELSE links
          /\ last' = [op |-> "union"]
    /\ UNCHANGED <<article, insurers, mvars, aivars, pvars, dvars, hvars, nvars>>

(***************************************************************************)
(* Specifications                                                          *)
(***************************************************************************)
\* deterministic matching over generated article texts
InitMatch ==
    /\ article \in [title : Titles, description : Descriptions]
    /\ insurers \in Rosters
    /\ mpc = "ready"
    /\ matched_ids = << >>
    /\ result = NoResult
    /\ InitAIIdle
    /\ InitPipeIdle
    /\ InitRepeatIdle
    /\ InitNormIdle
    /\ InitUFIdle
    /\ InitDedupIdle

NextMatch == MatchArticle

SpecMatch == InitMatch /\ [][NextMatch]_vars

\* deterministic matching over insurers that rest on their search terms
InitTerms ==
    /\ article \in [title : TermTitles, description : Descriptions]
    /\ insurers \in TermRosters
    /\ mpc = "ready"
    /\ matched_ids = << >>
    /\ result = NoResult
    /\ InitAIIdle
    /\ InitPipeIdle
    /\ InitRepeatIdle
    /\ InitNormIdle
    /\ InitUFIdle
    /\ InitDedupIdle

NextTerms == MatchArticle

SpecTerms == InitTerms /\ [][NextTerms]_vars

\* the matcher and the AI matcher over one article and one roster
Init ==
    /\ article \in [title : PipeTitles, description : Descriptions]
    /\ insurers \in PipeRosters
    /\ mpc = "ready"
    /\ matched_ids = << >>
    /\ result = NoResult
    /\ client \in BOOLEAN
    /\ aipc = "idle"
    /\ attempt = 0
    /\ outcomes = << >>
    /\ sleeps = << >>
    /\ context = << >>
    /\ parsed = << >>
    /\ parsed_confidence = 0
    /\ recordCalls = << >>
    /\ events = << >>
    /\ aiResult = NoResult
    /\ InitPipeIdle
    /\ InitRepeatIdle
    /\ InitNormIdle
    /\ InitUFIdle
    /\ InitDedupIdle

Next ==
    \/ MatchArticle
    \/ AiMatchCall
    \/ AiMatchUnavailable
    \/ AiMatchPromptError
    \/ AiMatchRetry
    \/ AiMatchSuccess
    \/ AiMatchFailure

Spec == Init /\ [][Next]_vars

(***************************************************************************)
(* The matching pipeline around the two matchers: DeterministicMatcher,    *)
(* MatchArbiter, then AIDisambiguator for the pending unmatched results    *)
(***************************************************************************)
\* 1 to 3 deterministic matches: the deterministic result is final
ResolveDeterministic ==
    /\ mpc = "done"
    /\ result.method # "unmatched"
    /\ final = NoResult
    /\ final' = result
    /\ UNCHANGED <<article, insurers>>
    /\ UNCHANGED <<mvars, aivars, dvars, hvars, nvars, uvars>>

\* a pending unmatched result is handed to ai_match
ResolveEscalate ==
    /\ mpc = "done"
    /\ result.method = "unmatched"
    /\ AiMatchCall

\* ai_match returned: its MatchResult is the article's final result
ResolveAI ==
    /\ aipc = "returned"
    /\ final = NoResult
    /\ final' = aiResult
    /\ UNCHANGED <<article, insurers>>
    /\ UNCHANGED <<mvars, aivars, dvars, hvars, nvars, uvars>>

\* ai_match raised: the exception reaches the pipeline in place of a result
ResolveRaised ==
    /\ aipc = "raised"
    /\ final = NoResult
    /\ final' = aiResult
    /\ UNCHANGED <<article, insurers>>
    /\ UNCHANGED <<mvars, aivars, dvars, hvars, nvars, uvars>>

NextPipe ==
    \/ MatchArticle
    \/ ResolveDeterministic
    \/ ResolveEscalate
    \/ AiMatchUnavailable
    \/ AiMatchPromptError
    \/ AiMatchRetry
    \/ AiMatchSuccess
    \/ AiMatchFailure
    \/ ResolveAI
    \/ ResolveRaised

SpecPipe == Init /\ [][NextPipe]_vars

(***************************************************************************)
(* The deduplicator                                                        *)
(***************************************************************************)
InitMatchersIdle ==
    /\ article = [title |-> << >>, description |-> << >>]
    /\ insurers = << >>
    /\ mpc = "ready"
    /\ matched_ids = << >>
    /\ result = NoResult
    /\ InitAIIdle
    /\ InitPipeIdle
    /\ InitRepeatIdle
    /\ InitNormIdle
    /\ InitUFIdle

\* a fresh ArticleDeduplicator and the articles of one run
InitDedup ==
    /\ InitMatchersIdle
    /\ stream \in Streams
    /\ sim \in Similarities(Len(stream))
    /\ articles = << >>
    /\ dpc = "idle"
    /\ calls = 0
    /\ model_loaded = FALSE
    /\ loads = << >>
    /\ embedding = "none"
    /\ groups = << >>
    /\ deduplicated = << >>
    /\ refs = << >>

NextDedup ==
    \/ DedupCall
    \/ DedupSkipped
    \/ DedupLoadRaises
    \/ DedupEncodeRaises
    \/ DedupMerged

SpecDedup == InitDedup /\ [][NextDedup]_vars

\* a fresh ArticleDeduplicator that is called several times
InitDedupCalls ==
    /\ InitMatchersIdle
    /\ stream = SubSeq(ArticlePool, 1, MaxArticles)
    /\ sim \in Similarities(Len(stream))
    /\ articles = << >>
    /\ dpc = "idle"
    /\ calls = 0
    /\ model_loaded = FALSE
    /\ loads = << >>
    /\ embedding = "none"
    /\ groups = << >>
    /\ deduplicated = << >>
    /\ refs = << >>

NextDedupCalls ==
    \/ DedupCallBatch
    \/ DedupSkipped
    \/ DedupLoadRaises
    \/ DedupEncodeRaises
    \/ DedupMerged

SpecDedupCalls == InitDedupCalls /\ [][NextDedupCalls]_vars

(***************************************************************************)
(* One InsurerMatcher used for many calls                                  *)
(***************************************************************************)
InitRepeat ==
    /\ article = [title |-> << >>, description |-> << >>]
    /\ insurers = << >>
    /\ mpc = "ready"
    /\ matched_ids = << >>
    /\ result = NoResult
    /\ InitAIIdle
    /\ InitPipeIdle
    /\ InitRepeatIdle
    /\ InitNormIdle
    /\ InitUFIdle
    /\ InitDedupIdle

NextRepeat ==
    \/ MatchArticleRepeat
    \/ MatchBatch

SpecRepeat == InitRepeat /\ [][NextRepeat]_vars

(***************************************************************************)
(* Normalisation of one text, twice                                        *)
(***************************************************************************)
InitNorm ==
    /\ article = [title |-> << >>, description |-> << >>]
    /\ insurers = << >>
    /\ mpc = "idle"
    /\ matched_ids = << >>
    /\ result = NoResult
    /\ InitAIIdle
    /\ InitPipeIdle
    /\ InitRepeatIdle
    /\ ntext \in NormTexts
    /\ normalized = << >>
    /\ twice = << >>
    /\ npc = 0
    /\ InitUFIdle
    /\ InitDedupIdle

NextNorm ==
    \/ NormalizeOnce
    \/ NormalizeAgain

SpecNorm == InitNorm /\ [][NextNorm]_vars

(***************************************************************************)
(* One _UnionFind(n) and the calls made on it                              *)
(***************************************************************************)
InitUF ==
    /\ article = [title |-> << >>, description |-> << >>]
    /\ insurers = << >>
    /\ mpc = "idle"
    /\ matched_ids = << >>
    /\ result = NoResult
    /\ InitAIIdle
    /\ InitPipeIdle
    /\ InitRepeatIdle
    /\ InitNormIdle
    /\ InitDedupIdle
    /\ uf \in {UnionFindInit(n) : n \in 1..UFSize}
    /\ links = {}
    /\ last = [op |-> "none"]

NextUF ==
    \/ UFFind
    \/ UFUnion

SpecUF == InitUF /\ [][NextUF]_vars

(***************************************************************************)
(* Properties of InsurerMatcher                                            *)
(***************************************************************************)
RosterIds(roster) == {roster[k].id : k \in 1..Len(roster)}
UniqueIds(roster) ==
    \A j, k \in 1..Len(roster) : roster[j].id = roster[k].id => j = k
IdsOf(seq) == {seq[k] : k \in 1..Len(seq)}

\* the insurers of the roster the deterministic pass matches
MatchedInsurers ==
    {k \in 1..Len(insurers) : InsurerHit(insurers[k], Content(article))}
MatchedCount == Cardinality(MatchedInsurers)

\* C1: the result of match_article is determined by the number n of
\* deterministically matched insurers: n = 1 gives deterministic_single with
\* confidence 0.95, n = 2 or 3 gives deterministic_multi with 0.85, n = 0 and
\* every n >= 4 give unmatched with confidence 0.0 and no insurer ids.
C1_ArbiterCardinality ==
    (mpc = "done" /\ UniqueIds(insurers)) =>
        /\ MatchedCount = 1 =>
              /\ result.method = "deterministic_single"
              /\ result.confidence = 95
        /\ MatchedCount \in {2, 3} =>
              /\ result.method = "deterministic_multi"
              /\ result.confidence = 85
        /\ (MatchedCount = 0 \/ MatchedCount >= 4) =>
              /\ result.method = "unmatched"
              /\ result.confidence = 0
              /\ result.insurer_ids = << >>

C1_Witness ==
    /\ mpc = "done"
    /\ MatchedCount >= 4
    /\ result.method = "unmatched"

\* the normalized name and search terms a deterministic match may rest on
Literals(insurer) ==
    {L \in {_normalize_text(insurer.name)}
           \cup {_normalize_text(search_terms_list(insurer)[k]) :
                    k \in 1..Len(search_terms_list(insurer))} : Len(L) >= 4}

Occurrences(L, content) ==
    {i \in 1..(Len(content) - Len(L) + 1) : SubSeq(content, i, i + Len(L) - 1) = L}

\* the occurrence at i has a word character directly before or after it
Embedded(L, content, i) == WordAt(content, i - 1) \/ WordAt(content, i + Len(L))

WholeWordOccurs(L, content) ==
    \E i \in Occurrences(L, content) : ~Embedded(L, content, i)

\* C7: whole-word matching: an insurer whose name and search terms (of at
\* least 4 normalized characters) occur in the normalized text only with a
\* word character directly before or after them is not in the match result.
C7_WholeWordOnly ==
    mpc = "done" =>
        \A k \in 1..Len(insurers) :
            insurers[k].id \in IdsOf(matched_ids) =>
                \E L \in Literals(insurers[k]) : WholeWordOccurs(L, Content(article))

\* the roster holds an insurer named "SulAmerica" without search terms
HasSulAmerica ==
    \E k \in 1..Len(insurers) :
        /\ insurers[k].name = w_SulAmerica
        /\ insurers[k].search_terms = None

SulAmericaMatched ==
    \A k \in 1..Len(insurers) :
        (insurers[k].name = w_SulAmerica /\ insurers[k].search_terms = None)
            => insurers[k].id \in IdsOf(matched_ids)

\* C8 as stated: "SulAmerica" is matched to the text "Sul America anuncia
\* resultado" written with an accent and a space.
C8_SpacedNameMatches ==
    (mpc = "done" /\ HasSulAmerica /\ article.title = t_SulAmericaSpaced)
        => SulAmericaMatched

\* C8 amended: "SulAmerica" is matched to the text "SulAmerica anuncia
\* resultado" written with an accent and as one word; written as two words
\* "Sul America" it is not matched, normalization keeps inner spaces.
C8_AccentedNameMatches ==
    /\ (mpc = "done" /\ HasSulAmerica /\ article.title = t_SulAmericaJoined)
          => SulAmericaMatched
    /\ (mpc = "done" /\ HasSulAmerica /\ article.title = t_SulAmericaSpaced)
          => ~SulAmericaMatched

C8_Witness ==
    /\ mpc = "done"
    /\ HasSulAmerica
    /\ article.title = t_SulAmericaJoined
    /\ article.description = << >>
    /\ matched_ids = <<1>>

OnlyShort(insurer) ==
    /\ Len(_normalize_text(insurer.name)) < 4
    /\ \A k \in 1..Len(search_terms_list(insurer)) :
          Len(_normalize_text(search_terms_list(insurer)[k])) < 4

\* C9: an insurer whose normalized name and search terms all have fewer than
\* 4 characters is never in the deterministic match result, even when the
\* name occurs in the text as a whole word.
C9_ShortNameExcluded ==
    (mpc = "done" /\ UniqueIds(insurers)) =>
        \A k \in 1..Len(insurers) :
            OnlyShort(insurers[k]) => insurers[k].id \notin IdsOf(matched_ids)

C9_Witness ==
    /\ mpc = "done"
    /\ \E k \in 1..Len(insurers) :
          /\ OnlyShort(insurers[k])
          /\ WholeWordOccurs(_normalize_text(insurers[k].name), Content(article))
          /\ insurers[k].id \notin IdsOf(matched_ids)

\* C10: an insurer with a normalized name of fewer than 4 characters and a
\* search term of at least 4 normalized characters that occurs as a whole
\* word in the text is in the deterministic match result.
C10_ShortNameLongTerm ==
    mpc = "done" =>
        \A k \in 1..Len(insurers) :
            ( /\ Len(_normalize_text(insurers[k].name)) < 4
              /\ \E L \in Literals(insurers[k]) : WholeWordOccurs(L, Content(article)) )
                => insurers[k].id \in IdsOf(matched_ids)

(***************************************************************************)
(* Properties of MatchResult and AIInsurerMatcher.ai_match                 *)
(***************************************************************************)
Last(seq) == seq[Len(seq)]

ResultShape(r) ==
    /\ r.method = "unmatched" => (r.insurer_ids = << >> /\ r.confidence = 0)
    /\ r.method = "deterministic_single" => Len(r.insurer_ids) = 1
    /\ r.method = "deterministic_multi" => Len(r.insurer_ids) \in {2, 3}

\* C2: every MatchResult returned by match_article or by ai_match satisfies:
\* unmatched implies no insurer ids and confidence 0.0, deterministic_single
\* implies exactly one id, deterministic_multi implies 2 or 3 ids.
C2_ResultShape ==
    /\ mpc = "done" => ResultShape(result)
    /\ aipc = "returned" => ResultShape(aiResult)

C2_Witness ==
    /\ mpc = "done"
    /\ Len(matched_ids) > 3
    /\ result.method = "unmatched"
    /\ aipc = "returned"
    /\ aiResult.method = "unmatched"
    /\ outcomes # << >>

\* C3: after a successful completion request the insurer_ids of the result
\* are the ids the model returned that belong to the context sent (at most
\* 200 rows of the roster), in the model's order; the other ids are dropped
\* and the call still returns ai_disambiguation.
C3_HallucinationGuard ==
    (outcomes # << >> /\ Last(outcomes) = "ok") =>
        /\ aipc = "returned"
        /\ aiResult.method = "ai_disambiguation"
        /\ aiResult.insurer_ids = SelectSeq(parsed, LAMBDA id : id \in IdsOf(context))
        /\ Len(context) <= MAX_INSURER_CONTEXT
        /\ IdsOf(context) \subseteq RosterIds(insurers)

C3_Witness ==
    /\ aipc = "returned"
    /\ Len(insurers) > MAX_INSURER_CONTEXT
    /\ parsed = <<1, 3>>
    /\ 1 \in RosterIds(insurers)
    /\ 1 \notin IdsOf(context)
    /\ aiResult.insurer_ids = <<3>>

\* C4: when the completion request or the handling of its response raises,
\* ai_match returns unmatched with no ids, confidence 0.0 and a reasoning
\* naming the exception type, calls _record_event with success = False (the
\* row is committed unless the event write itself fails) and raises nothing.
C4_FailureDegrades ==
    (outcomes # << >> /\ Last(outcomes) \in CompletionErrors) =>
        /\ aipc = "returned"
        /\ aiResult.method = "unmatched"
        /\ aiResult.insurer_ids = << >>
        /\ aiResult.confidence = 0
        /\ aiResult.reasoning = <<"AI match failed", Last(outcomes)>>
        /\ recordCalls = <<FALSE>>
        /\ events \in {<< >>, <<[api_name |-> "ai_matcher", success |-> FALSE,
                                 detail |-> <<Last(outcomes)>>]>>}

C4_Witness ==
    /\ aipc = "returned"
    /\ outcomes = <<"ValidationError">>
    /\ aiResult.method = "unmatched"
    /\ Len(events) = 1

\* C5: with no completion service configured ai_match returns unmatched with
\* no ids and confidence 0.0 for every article and roster, raises nothing and
\* issues no completion request.
C5_UnavailableDegrades ==
    ~client =>
        /\ outcomes = << >>
        /\ aipc \in {"idle", "body", "returned"}
        /\ aipc = "returned" =>
              /\ aiResult.method = "unmatched"
              /\ aiResult.insurer_ids = << >>
              /\ aiResult.confidence = 0

C5_Witness ==
    /\ ~client
    /\ aipc = "returned"
    /\ article.description = None
    /\ insurers # << >>
    /\ aiResult.method = "unmatched"

\* C6: when the first completion attempt fails with a timeout or connection
\* error, a second attempt is made after the backoff wait; the call returns
\* unmatched only after both attempts failed, and a success on the second
\* attempt gives ai_disambiguation.
C6_TransientRetried ==
    (aipc = "returned" /\ outcomes # << >> /\ outcomes[1] \in TransientErrors) =>
        /\ Len(outcomes) = MAX_ATTEMPTS
        /\ Len(sleeps) = 1
        /\ outcomes[2] = "ok" => aiResult.method = "ai_disambiguation"
        /\ aiResult.method = "unmatched" => outcomes[2] \in CompletionErrors

(***************************************************************************)
(* Properties of the pipeline                                              *)
(***************************************************************************)
\* C11: when deterministic matching yields 0 or more than 3 insurers, ai_match
\* is invoked for the article and the article's final result is the result of
\* ai_match: ai_disambiguation when the completion succeeds, unmatched only
\* when the client is not configured or the completion fails; an article with
\* 1 to 3 deterministic matches is never sent to ai_match.
C11_AIHandoff ==
    (mpc = "done" /\ final # NoResult) =>
        IF Len(matched_ids) \in 1..3
        THEN /\ aipc = "idle"
             /\ final = result
        ELSE /\ aipc # "idle"
             /\ final = aiResult
             /\ final.method \in {"ai_disambiguation", "unmatched"}
             /\ (outcomes # << >> /\ Last(outcomes) = "ok") =>
                    final.method = "ai_disambiguation"
             /\ final.method = "unmatched" =>
                    \/ ~client
                    \/ outcomes # << >> /\ Last(outcomes) \in CompletionErrors

(***************************************************************************)
(* Properties of ArticleDeduplicator                                       *)
(***************************************************************************)
Range(seq) == {seq[k] : k \in 1..Len(seq)}

\* the duplicate graph of the call: an edge joins two articles whose
\* similarity is at or above 0.85
Edge(i, j) ==
    /\ i # j
    /\ sim[IF i < j THEN <<i, j>> ELSE <<j, i>>] >= 85

RECURSIVE Grow(_, _)
Grow(S, n) ==
    LET T == S \cup {j \in 1..n : \E i \in S : Edge(i, j)}
    IN  IF T = S THEN S ELSE Grow(T, n)

\* the connected component of article i among n articles
Component(i, n) == Grow({i}, n)
Components(n) == {Component(i, n) : i \in 1..n}

Encoded == dpc = "returned" /\ embedding = "ok"

\* C12: for 2 or more articles deduplicate returns one article per connected
\* component of the graph of the pairs with similarity >= 0.85 (a similarity
\* equal to the threshold is an edge): the groups are exactly the components,
\* every article is in exactly one group, and each returned article stands
\* for the articles of its group.
C12_ConnectedComponents ==
    Encoded =>
        LET n == Len(articles) IN
        /\ Len(deduplicated) = Cardinality(Components(n))
        /\ Len(groups) = Len(deduplicated)
        /\ {Range(groups[k]) : k \in 1..Len(groups)} = Components(n)
        /\ \A i \in 1..n :
              Cardinality({k \in 1..Len(groups) : i \in Range(groups[k])}) = 1
        /\ \A k \in 1..Len(groups) :
              \E i \in Range(groups[k]) : deduplicated[k].title = articles[i].title

\* A-B and B-C are edges (A-B exactly at the threshold), A-C is not, and the
\* three articles come back as one
C12_Witness ==
    /\ Encoded
    /\ Len(articles) = 3
    /\ sim[<<1, 2>>] = 85
    /\ sim[<<2, 3>>] = 90
    /\ sim[<<1, 3>>] = 10
    /\ Len(deduplicated) = 1

\* C13: deduplicate of an empty list returns an empty list, and of a single
\* article returns a list holding that article with every field unchanged.
C13_SingletonNoOp ==
    (dpc \in {"returned", "raised"} /\ Len(articles) <= 1) =>
        /\ dpc = "returned"
        /\ Len(articles) = 0 => deduplicated = << >>
        /\ Len(articles) = 1 => deduplicated = <<articles[1]>>

C13_Witness ==
    /\ dpc = "returned"
    /\ Len(articles) = 1
    /\ deduplicated = <<articles[1]>>

\* article a is published before article b; an article without published_at
\* is before none and after every article that has one
Earlier(a, b) ==
    /\ a.published_at # NoDate
    /\ b.published_at = NoDate \/ a.published_at < b.published_at

\* articles i and j of the call in ascending published_at order, input order
\* deciding between equal and between missing timestamps
Before(i, j) ==
    \/ Earlier(articles[i], articles[j])
    \/ ~Earlier(articles[j], articles[i]) /\ i < j

DateOrder(group) == SortSeq(group, Before)

LargeGroups == {k \in 1..Len(groups) : Len(groups[k]) > 1}

\* C14: the representative of every group of more than one article is based
\* on the article of the group with the earliest published_at, an article
\* without published_at coming after every dated one and input order deciding
\* between equal or missing timestamps; its fields other than source_name and
\* description are those of that article.
C14_EarliestIsBase ==
    Encoded =>
        \A k \in LargeGroups :
            \E b \in Range(groups[k]) :
                /\ \A m \in Range(groups[k]) \ {b} : Before(b, m)
                /\ deduplicated[k].title = articles[b].title
                /\ deduplicated[k].published_at = articles[b].published_at

\* an undated article comes first in the input and the dated one is the base
C14_Witness ==
    /\ Encoded
    /\ \E k \in LargeGroups :
          /\ articles[groups[k][1]].published_at = NoDate
          /\ deduplicated[k].published_at # NoDate
          /\ deduplicated[k].title = articles[groups[k][2]].title

RECURSIVE FirstOccurrences(_, _)
FirstOccurrences(names, seen) ==
    IF names = << >> THEN << >>
    ELSE IF Head(names) \in seen
         THEN FirstOccurrences(Tail(names), seen)
         ELSE <<Head(names)>> \o
              FirstOccurrences(Tail(names), seen \cup {Head(names)})

RECURSIVE JoinNames(_)
JoinNames(names) ==
    IF names = << >> THEN << >>
    ELSE Head(names) \o
         (IF Tail(names) = << >> THEN << >>
          ELSE <<", ">> \o JoinNames(Tail(names)))

SourcesInDateOrder(group) ==
    LET order == DateOrder(group)
    IN  [k \in 1..Len(order) |-> articles[order[k]].source_name]

\* C15: the source_name of the representative of every group of more than
\* one article is the source names of the group in ascending published_at
\* order, each distinct name once at its first occurrence, joined by ", ";
\* for two articles with different sources it is "<earlier>, <later>".
C15_SourcesJoined ==
    Encoded =>
        \A k \in LargeGroups :
            LET names == SourcesInDateOrder(groups[k]) IN
            /\ deduplicated[k].source_name =
                  JoinNames(FirstOccurrences(names, {}))
            /\ (Len(names) = 2 /\ names[1] # names[2]) =>
                  deduplicated[k].source_name = names[1] \o <<", ">> \o names[2]

\* two articles with different sources, the later one first in the input
C15_Witness ==
    /\ Encoded
    /\ \E k \in LargeGroups :
          LET g == groups[k] IN
          /\ Len(g) = 2
          /\ Earlier(articles[g[2]], articles[g[1]])
          /\ articles[g[1]].source_name = <<"Valor">>
          /\ deduplicated[k].source_name = <<"Reuters", ", ", "Valor">>

NonEmpty(description) == description # None /\ Len(description) > 0

\* C16: when an article of a group of more than one has a non-empty
\* description, the representative's description is the longest non-empty
\* description of the group, the first in ascending published_at order among
\* the longest; otherwise the base article's description is kept.
C16_LongestDescription ==
    Encoded =>
        \A k \in LargeGroups :
            LET order == DateOrder(groups[k])
                cand == {p \in 1..Len(order) :
                            NonEmpty(articles[order[p]].description)}
                longest == {p \in cand :
                               \A q \in cand :
                                   Len(articles[order[q]].description) <=
                                   Len(articles[order[p]].description)}
            IN  IF cand # {}
                THEN \E p \in longest :
                        /\ \A q \in longest : p <= q
                        /\ deduplicated[k].description =
                              articles[order[p]].description
                ELSE deduplicated[k].description = articles[order[1]].description

\* two different descriptions of the same greatest length: the one of the
\* article earlier in date order is taken, and the base has a shorter one
C16_Witness ==
    /\ Encoded
    /\ \E k \in LargeGroups :
          /\ Len(groups[k]) = 3
          /\ articles[groups[k][1]].title = <<"t3">>
          /\ deduplicated[k].title = <<"t2">>
          /\ deduplicated[k].description = <<"a", "b", "c">>

EmbeddingFailed == embedding \in {"load_failed", "encode_failed"}

\* C17: when loading the embedding model or encoding the texts raises,
\* deduplicate raises nothing and returns the input articles unchanged.
C17_EmbeddingFailureDegrades ==
    (dpc \in {"returned", "raised"} /\ EmbeddingFailed) =>
        /\ dpc = "returned"
        /\ deduplicated = articles

WriteFailed == Len(events) < Len(recordCalls)

\* the MatchResult ai_match builds from the response, whatever the event
\* write does
ResultOfResponse ==
    IF Last(outcomes) = "ok"
    THEN MatchResult(ValidatedIds(parsed, IdsOf(context)), parsed_confidence,
                     "ai_disambiguation", <<"model reasoning">>)
    ELSE MatchResult(<< >>, 0, "unmatched", <<"AI match failed", Last(outcomes)>>)

\* C19: when opening the session, adding the event or committing it raises,
\* ai_match raises nothing and returns the MatchResult (method, insurer_ids,
\* confidence, reasoning) it returns when the event is written, after a
\* successful completion as well as after a failed one.
C19_TelemetryIsolated ==
    (aipc \in {"returned", "raised"} /\ recordCalls # << >>) =>
        /\ aipc = "returned"
        /\ aiResult = ResultOfResponse
        /\ Len(recordCalls) = 1
        /\ recordCalls[1] = (Last(outcomes) = "ok")

\* the completion succeeded, the event write failed, the match is returned
C19_Witness ==
    /\ aipc = "returned"
    /\ WriteFailed
    /\ recordCalls = <<TRUE>>
    /\ aiResult.method = "ai_disambiguation"
    /\ aiResult.insurer_ids # << >>

\* C20: with no completion client configured, each ai_match call records a
\* failure telemetry event (success = false) and returns the unmatched
\* result.
C20_UnavailableRecorded ==
    (aipc = "returned" /\ ~client) =>
        /\ aiResult = UnavailableResult
        /\ recordCalls = <<FALSE>>

C22_NormalizeIdempotent ==
    /\ npc = 2 => twice = normalized
    /\ (npc >= 1 /\ ntext \in {None, << >>}) => normalized = << >>

\* an accented capital between whitespace, normalised twice
C22_Witness ==
    /\ npc = 2
    /\ ntext = <<" ", "E_acute", " ">>
    /\ normalized = <<"e">>
    /\ twice = <<"e">>

(***************************************************************************)
(* Properties of the AI matcher, continued                                 *)
(***************************************************************************)
NoDuplicates(ids) == Cardinality({ids[k] : k \in 1..Len(ids)}) = Len(ids)

\* C23: the insurer_ids of every MatchResult hold no id more than once: the
\* deterministic result over a roster of unique ids, and the ai_match result
\* also when the model returns the same valid id several times.
C23_UniqueIds ==
    /\ mpc = "done" => NoDuplicates(result.insurer_ids)
    /\ aipc = "returned" => NoDuplicates(aiResult.insurer_ids)

\* the roster row a context entry stands for
RowOf(id) == insurers[CHOOSE k \in 1..Len(insurers) : insurers[k].id = id]

\* x may stand before y: enabled before disabled, then by lowercased name
InOrder(x, y) ==
    /\ x.enabled \/ ~y.enabled
    /\ x.enabled = y.enabled => ~StrLess(LowerStr(y.name), LowerStr(x.name))

ContextSent == client /\ aipc \in {"backoff", "returned", "raised"}

\* C24: the context sent by ai_match lists the roster with every enabled
\* insurer before every disabled one and, within each, by case-insensitive
\* name; of a roster of more than 200 insurers exactly the first 200 of that
\* order are sent and the call still proceeds; a disabled insurer is in the
\* context only if every enabled insurer is.
C24_ContextOrder ==
    ContextSent =>
        \E sent \in {IdsOf(context)} :
        \E rows \in {[k \in 1..Len(context) |-> RowOf(context[k])]} :
            /\ NoDuplicates(context)
            /\ sent \subseteq RosterIds(insurers)
            /\ Len(context) = IF Len(insurers) > 200 THEN 200 ELSE Len(insurers)
            /\ \A k \in 1..(Len(rows) - 1) : InOrder(rows[k], rows[k + 1])
            /\ \A j \in 1..Len(insurers) :
                  insurers[j].id \notin sent => InOrder(rows[Len(rows)], insurers[j])
            /\ (\E k \in 1..Len(rows) : ~rows[k].enabled)
                  => \A j \in 1..Len(insurers) :
                        insurers[j].enabled => insurers[j].id \in sent
            /\ (Len(insurers) > 200 /\ ~PromptRaises(article) /\ aipc = "returned")
                  => Len(outcomes) = 1

\* a roster of more than 200 insurers, truncated: a disabled insurer is left
\* out and the completion request is made
C24_Witness ==
    /\ ContextSent
    /\ aipc = "returned"
    /\ Len(insurers) > 200
    /\ Len(context) = 200
    /\ outcomes = <<"ok">>
    /\ \E j \in 1..Len(insurers) :
          ~insurers[j].enabled /\ insurers[j].id \notin IdsOf(context)
    /\ \E j \in 1..Len(insurers) :
          insurers[j].enabled /\ insurers[j].id \notin IdsOf(context)

RequestSucceeded ==
    /\ aipc = "returned"
    /\ outcomes # << >>
    /\ outcomes[Len(outcomes)] = "ok"

\* C25: whenever the completion request succeeds, ai_match returns method
\* ai_disambiguation with the validated ids, the model's confidence and its
\* reasoning; with no validated id (the model returned none, or every id was
\* dropped by the hallucination guard) the result is ai_disambiguation with
\* empty insurer_ids and the model's confidence, not unmatched.
C25_SuccessIsDisambiguation ==
    RequestSucceeded =>
        /\ aiResult.method = "ai_disambiguation"
        /\ aiResult.confidence = parsed_confidence
        /\ aiResult.reasoning = <<"model reasoning">>
        /\ aiResult.insurer_ids =
              SelectSeq(parsed, LAMBDA id : id \in IdsOf(context))
        /\ (\A k \in 1..Len(parsed) : parsed[k] \notin IdsOf(context))
              => aiResult.insurer_ids = << >>

\* the model names only an id that is not in the context, with confidence 0.9
C25_Witness ==
    /\ RequestSucceeded
    /\ parsed = <<999>>
    /\ parsed_confidence = 90
    /\ aiResult.method = "ai_disambiguation"
    /\ aiResult.insurer_ids = << >>
    /\ aiResult.confidence = 90

\* C26: a non-retryable failure of the AI call, such as a malformed response,
\* is not retried: the ai_match call issues exactly one completion request
\* and returns method unmatched; no ai_match call issues more than 2
\* completion requests.
C26_MalformedNotRetried ==
    /\ Len(outcomes) <= 2
    /\ \A k \in 1..Len(outcomes) :
          outcomes[k] \in ResponseErrors =>
              /\ Len(outcomes) = 1
              /\ sleeps = << >>
              /\ aipc = "returned"
              /\ aiResult.method = "unmatched"
              /\ aiResult.insurer_ids = << >>

\* the response cannot be parsed: one request, no backoff, unmatched
C26_Witness ==
    /\ aipc = "returned"
    /\ outcomes = <<"ValidationError">>
    /\ attempt = 1
    /\ sleeps = << >>
    /\ aiResult.method = "unmatched"

\* C29: ai_match returns a MatchResult and raises nothing for an article
\* whose description or title is None, whether the completion service is
\* configured and succeeds, is configured and fails, or is not configured.
C29_NoneTolerated ==
    (article.title = None \/ article.description = None) =>
        /\ aipc # "raised"
        /\ aiResult.method # "raised"

(***************************************************************************)
(* Properties of the search-term fallback                                  *)
(***************************************************************************)
\* the normalized search terms of 4 characters or more
LongTerms(insurer) ==
    {L \in {_normalize_text(search_terms_list(insurer)[k]) :
                k \in 1..Len(search_terms_list(insurer))} : Len(L) >= 4}

TimesMatched(id) == Cardinality({k \in 1..Len(matched_ids) : matched_ids[k] = id})

\* C27: an insurer whose name (of at least 4 normalized characters) does not
\* occur as a whole word in the text, but at least one of whose comma-split,
\* trimmed search terms of at least 4 normalized characters does, is in the
\* deterministic match result exactly once, however many terms occur; a
\* search term of fewer than 4 normalized characters never causes a match.
C27_SearchTermFallback ==
    (mpc = "done" /\ UniqueIds(insurers)) =>
        \A k \in 1..Len(insurers) :
            ( /\ Len(_normalize_text(insurers[k].name)) >= 4
              /\ ~WholeWordOccurs(_normalize_text(insurers[k].name), Content(article)) )
            => IF \E L \in LongTerms(insurers[k]) : WholeWordOccurs(L, Content(article))
               THEN TimesMatched(insurers[k].id) = 1
               ELSE TimesMatched(insurers[k].id) = 0

(***************************************************************************)
(* Properties of deduplicate: the input is left alone                      *)
(***************************************************************************)
\* C28: deduplicate never modifies its input: after any call the input list
\* and every input article have the same contents as before; each merged
\* representative is a new copy, none of the group's articles, and an
\* article alone in its group is returned as the same, unmodified object.
C28_InputUntouched ==
    dpc \in {"returned", "raised"} =>
        /\ articles = stream
        /\ dpc = "returned" =>
              /\ Len(refs) = Len(deduplicated)
              /\ \A k \in 1..Len(refs) :
                    IF Encoded /\ Len(groups[k]) > 1
                    THEN refs[k] = 0
                    ELSE /\ refs[k] \in 1..Len(stream)
                         /\ deduplicated[k] = stream[refs[k]]
                         /\ Encoded => groups[k] = <<refs[k]>>

\* two articles merged into a representative that differs from both, a third
\* returned as it is, and the three input articles as they were
C28_Witness ==
    /\ Encoded
    /\ Len(stream) = 3
    /\ articles = stream
    /\ Len(deduplicated) = 2
    /\ \E k \in 1..2 :
          /\ Len(groups[k]) = 2
          /\ refs[k] = 0
          /\ \A i \in 1..3 : deduplicated[k] # stream[i]
          /\ refs[3 - k] = groups[3 - k][1]
          /\ deduplicated[3 - k] = stream[refs[3 - k]]

(***************************************************************************)
(* Properties of _UnionFind                                                *)
(***************************************************************************)
\* the element reached from x by following k parent links
RECURSIVE Follow(_, _, _)
Follow(parent, x, k) == IF k = 0 THEN x ELSE Follow(parent, parent[x], k - 1)

\* every element reaches a self-parented root in at most n steps
Forest(parent) ==
    \A x \in 1..Len(parent) :
        \E k \in 0..Len(parent) :
            parent[Follow(parent, x, k)] = Follow(parent, x, k)

\* the root of x found without compression
PlainRoot(parent, x) == Follow(parent, x, Len(parent))

\* the elements linked to x by a chain of union calls
RECURSIVE LinkedTo(_, _)
LinkedTo(S, k) ==
    IF k = 0 THEN S
    ELSE LinkedTo(S \cup {y \in 1..Len(uf) : \E x \in S : {x, y} \in links}, k - 1)

\* C30: after any sequence of union and find calls on n elements the parent
\* array is a forest: every element reaches a self-parented root in at most
\* n steps, so find terminates; find(x) returns the root that following the
\* parent links without compression gives and changes the root of no
\* element; and find(x) = find(y) exactly when x and y are linked by a chain
\* of earlier union calls.
C30_UnionFindForest ==
    /\ Forest(uf)
    /\ last.op = "find" =>
          /\ last.root = PlainRoot(last.before, last.x)
          /\ \A z \in 1..Len(uf) : PlainRoot(uf, z) = PlainRoot(last.before, z)
    /\ \A x, y \in 1..Len(uf) :
          LET fx == find(uf, x)
              fy == find(fx.parent, y)
          IN  /\ fx.root = PlainRoot(uf, x)
              /\ fy.root = PlainRoot(uf, y)
              /\ (fx.root = fy.root) <=> (y \in LinkedTo({x}, Len(uf)))

\* a chain of two links, then a find that compresses the path of its end
C30_Witness ==
    /\ Len(uf) = 3
    /\ Cardinality(links) = 2
    /\ last.op = "find"
    /\ last.before # uf
    /\ last.root = PlainRoot(uf, last.x)
    /\ \A x \in 1..3 : PlainRoot(uf, x) = last.root

====
